---- MODULE Spec2Model ----
(***************************************************************************)
(* Steady-state sweep script (src/main.py): the interactive species and    *)
(* rate-parameter loops, the sweep function analyze_steady_states, and the *)
(* assembly of the result table written to steady_state_analysis.csv.      *)
(*                                                                         *)
(* Python strings are sequences of one-character strings, so that          *)
(* str.lower() and float(str) are computed and not assumed.  Python floats *)
(* are exact decimals <<"num", mantissa, exponent>> (mantissa * 10^-exp,   *)
(* normalised), table cells are tagged tuples: <<"nan">>, <<"num", m, e>>, *)
(* <<"str", chars>>, <<"ss" or "no_ss", species, initial concentrations, *)
(* rates>>.                                                                *)
(***************************************************************************)
EXTENDS Integers, Sequences, FiniteSets, TLC

(* ------------------------------ bounds -------------------------------- *)
\* longest list of species the operator selects before typing the sentinel
MaxSel == 2
\* longest concentration sequence
MaxConc == 3

(* --------------------------- Python strings --------------------------- *)
UpperChars == <<"A","B","C","D","E","F","G","H","I","J","K","L","M",
                "N","O","P","Q","R","S","T","U","V","W","X","Y","Z">>
LowerChars == <<"a","b","c","d","e","f","g","h","i","j","k","l","m",
                "n","o","p","q","r","s","t","u","v","w","x","y","z">>
DigitChars == <<"0","1","2","3","4","5","6","7","8","9">>

Range(s) == {s[i] : i \in DOMAIN s}

LowerChar(c) ==
    IF \E i \in DOMAIN UpperChars : UpperChars[i] = c
    THEN LowerChars[CHOOSE i \in DOMAIN UpperChars : UpperChars[i] = c]
    ELSE c

\* str.lower()
PyLower(s) == [i \in 1..Len(s) |-> LowerChar(s[i])]

IsSpace(c) == c = " "

RECURSIVE LStrip(_)
LStrip(s) == IF s # <<>> /\ IsSpace(Head(s)) THEN LStrip(Tail(s)) ELSE s

RECURSIVE RStrip(_)
RStrip(s) ==
    IF s # <<>> /\ IsSpace(s[Len(s)]) THEN RStrip(SubSeq(s, 1, Len(s) - 1)) ELSE s

IsDigit(c) == c \in Range(DigitChars)
DigitVal(c) == (CHOOSE i \in DOMAIN DigitChars : DigitChars[i] = c) - 1

RECURSIVE DigitsVal(_)
DigitsVal(s) ==
    IF s = <<>> THEN 0
    ELSE 10 * DigitsVal(SubSeq(s, 1, Len(s) - 1)) + DigitVal(s[Len(s)])

RECURSIVE Normalise(_, _)
Normalise(m, e) ==
    IF m = 0 THEN <<"num", 0, 0>>
    ELSE IF e > 0 /\ m % 10 = 0 THEN Normalise(m \div 10, e - 1)
    ELSE <<"num", m, e>>

\* float(str) on the decimal literals: surrounding blanks are stripped, one
\* optional sign, digits with at most one point and at least one digit.
\* The result is [ok |-> FALSE] where Python raises ValueError.
PyFloatStr(s) ==
    LET t    == RStrip(LStrip(s))
        neg  == t # <<>> /\ Head(t) = "-"
        sgn  == t # <<>> /\ Head(t) \in {"-", "+"}
        u    == IF sgn THEN Tail(t) ELSE t
        dots == {i \in DOMAIN u : u[i] = "."}
        dot  == IF dots = {} THEN Len(u) + 1 ELSE CHOOSE i \in dots : TRUE
        ip   == SubSeq(u, 1, dot - 1)
        fp   == SubSeq(u, dot + 1, Len(u))
        good == /\ Cardinality(dots) <= 1
                /\ \A i \in DOMAIN ip : IsDigit(ip[i])
                /\ \A i \in DOMAIN fp : IsDigit(fp[i])
                /\ Len(ip) + Len(fp) >= 1
        mag  == DigitsVal(ip \o fp)
    IN  IF good
        THEN [ok |-> TRUE,
              val |-> Normalise(IF neg THEN 0 - mag ELSE mag, Len(fp))]
        ELSE [ok |-> FALSE, val |-> <<"nan">>]

\* float(value) for a value that is a float or a str
PyFloat(v) ==
    IF v[1] = "num" THEN [ok |-> TRUE, val |-> v]
    ELSE PyFloatStr(v[2])

Str(chars) == <<"str", chars>>
NaN == <<"nan">>

(* ------------------------------ names --------------------------------- *)
S_done == <<"d","o","n","e">>
S_name == <<"n","a","m","e">>
S_IP_tot == <<"I","P","_","t","o","t">>
S_concentration == <<"c","o","n","c","e","n","t","r","a","t","i","o","n">>
S_rates == <<"r","a","t","e","s">>
S_value == <<"v","a","l","u","e">>
S_reaction == <<"r","e","a","c","t","i","o","n">>
S_type == <<"t","y","p","e">>
S_mapped_to == <<"m","a","p","p","e","d","_","t","o">>

(* ---------------- the loaded COPASI model (basico facade) ------------- *)
S_A == <<"A">>
S_B == <<"B">>
S_k1 == <<"k","1">>
S_k2 == <<"k","2">>

\* species and reaction parameters of the loaded model, in the model's order
SpeciesOrder == <<S_A, S_B>>
ParamOrder == <<S_k1, S_k2>>
SpeciesNames == Range(SpeciesOrder)
ParamNames == Range(ParamOrder)

\* values stored in the model file before the run
ModelInitConc == [s \in SpeciesNames |-> <<"num", 5, 0>>]
ModelParams == [p \in ParamNames |-> <<"num", 1, 0>>]

\* set_species(name=spec, initial_concentration=c): a name that matches no
\* species changes nothing
set_species(ic, spec, c) ==
    IF spec \in SpeciesNames THEN [ic EXCEPT ![spec] = c] ELSE ic

\* set_reaction_parameters(name, value=v)
set_reaction_parameters(ps, name, v) ==
    IF name \in ParamNames THEN [ps EXCEPT ![name] = v] ELSE ps

\* run_steadystate(): the solver is outside the repository.  It returns
\* whether a steady state was found; the concentration it leaves for a
\* species is a term over the configuration it was run on, tagged "ss" when
\* a steady state was found and "no_ss" when not
run_steadystate(ic, ps, found) ==
    [s \in SpeciesNames |-> <<IF found THEN "ss" ELSE "no_ss", s, ic, ps>>]

(* --------------------------- pandas frames ---------------------------- *)
\* A frame is [columns, index, data]: columns and index are sequences of
\* labels, data[i] is row i as a function from the column labels to cells.
IntLabel(n) == <<"int", n>>
RangeIndex(n) == [i \in 1..n |-> IntLabel(i - 1)]

HasDuplicates(s) == \E i, j \in DOMAIN s : i # j /\ s[i] = s[j]

RECURSIVE Without(_, _)
\* the labels of b that are not in a, in b's order
Without(b, a) ==
    IF b = <<>> THEN <<>>
    ELSE IF Head(b) \in Range(a) THEN Without(Tail(b), a)
    ELSE <<Head(b)>> \o Without(Tail(b), a)

\* pd.DataFrame(columns=cols)
PdDataFrame(cols) == [columns |-> cols, index |-> <<>>, data |-> <<>>]

\* a row re-laid on the columns cols, NaN where it has no cell
Reindexed(row, cols) ==
    [c \in Range(cols) |-> IF c \in DOMAIN row THEN row[c] ELSE NaN]

\* df.append(other): rows of df then rows of other, index labels kept,
\* columns of df followed by the new columns of other
PdAppend(df, other) ==
    LET cols == df.columns \o Without(other.columns, df.columns)
    IN  [columns |-> cols,
         index   |-> df.index \o other.index,
         data    |-> [i \in 1..Len(df.data) |-> Reindexed(df.data[i], cols)]
                     \o [i \in 1..Len(other.data) |-> Reindexed(other.data[i], cols)]]

\* df.T
PdTranspose(df) ==
    [columns |-> df.index,
     index   |-> df.columns,
     data    |-> [r \in 1..Len(df.columns) |->
                    [c \in Range(df.index) |->
                        df.data[CHOOSE i \in DOMAIN df.index : df.index[i] = c]
                               [df.columns[r]]]]]

\* df[cols]
PdSelect(df, cols) ==
    [columns |-> cols,
     index   |-> df.index,
     data    |-> [i \in 1..Len(df.data) |-> [c \in Range(cols) |-> df.data[i][c]]]]

\* df.reset_index(drop=True)
PdResetIndex(df) == [df EXCEPT !.index = RangeIndex(Len(df.index))]

\* pd.concat([l, r], axis=1): the rows are aligned on the index labels (outer
\* join); the union keeps l's labels and then r's new ones.  A frame whose
\* index has duplicate labels cannot be re-laid on a different index, and
\* concat raises.
PdConcatAxis1(l, r) ==
    LET idx   == IF l.index = r.index THEN l.index
                 ELSE l.index \o Without(r.index, l.index)
        fails == \/ (l.index # idx /\ HasDuplicates(l.index))
                 \/ (r.index # idx /\ HasDuplicates(r.index))
        RowOf(f, lab) ==
            IF lab \in Range(f.index)
            THEN f.data[CHOOSE i \in DOMAIN f.index : f.index[i] = lab]
            ELSE [c \in Range(f.columns) |-> NaN]
        Join(lab) ==
            [c \in Range(l.columns) \cup Range(r.columns) |->
                IF c \in Range(l.columns) THEN RowOf(l, lab)[c] ELSE RowOf(r, lab)[c]]
    IN  IF fails
        THEN [raised |-> TRUE, frame |-> PdDataFrame(<<>>)]
        ELSE [raised |-> FALSE,
              frame  |-> [columns |-> l.columns \o r.columns,
                          index   |-> idx,
                          data    |-> [i \in 1..Len(idx) |-> Join(idx[i])]]]

\* get_species(): one row per species, indexed by the species name
get_species(ic, conc) ==
    [columns |-> <<S_concentration>>,
     index   |-> SpeciesOrder,
     data    |-> [i \in 1..Len(SpeciesOrder) |->
                    [c \in {S_concentration} |-> conc[SpeciesOrder[i]]]]]

\* get_reaction_parameters(): one row per parameter, indexed by its name
get_reaction_parameters(ps) ==
    [columns |-> <<S_value, S_reaction, S_type, S_mapped_to>>,
     index   |-> ParamOrder,
     data    |-> [i \in 1..Len(ParamOrder) |->
                    [c \in {S_value, S_reaction, S_type, S_mapped_to} |->
                        IF c = S_value THEN ps[ParamOrder[i]] ELSE Str(c)]]]

\* df[label] = value: a new last column holding the scalar in every row
PdSetColumn(df, label, value) ==
    [columns |-> df.columns \o <<label>>,
     index   |-> df.index,
     data    |-> [i \in 1..Len(df.data) |->
                    [c \in Range(df.columns) \cup {label} |->
                        IF c = label THEN value ELSE df.data[i][c]]]]

\* df.columns = labels (positional renaming)
PdRename(df, labels) ==
    [columns |-> labels,
     index   |-> df.index,
     data    |-> [i \in 1..Len(df.data) |->
                    [c \in Range(labels) |->
                        df.data[i][df.columns[CHOOSE k \in DOMAIN labels : labels[k] = c]]]]]

\* df.iloc[1:]
PdDropFirstRow(df) ==
    [columns |-> df.columns,
     index   |-> Tail(df.index),
     data    |-> Tail(df.data)]

(* ------------------------- result assembly ---------------------------- *)
\* handle_parameters_df(): the parameter table turned into one row whose
\* columns are the parameter names
handle_parameters_df(ps) ==
    LET p0 == get_reaction_parameters(ps)
        \* parameters_df['rates'] = parameters_df.index
        p1 == [columns |-> p0.columns \o <<S_rates>>,
               index   |-> p0.index,
               data    |-> [i \in 1..Len(p0.data) |->
                              [c \in Range(p0.columns) \cup {S_rates} |->
                                  IF c = S_rates THEN Str(p0.index[i])
                                  ELSE p0.data[i][c]]]]
        p2 == PdResetIndex(p1)
        \* 'rates' moved to position 0
        p3 == PdSelect(p2, <<S_rates>> \o Without(p2.columns, <<S_rates>>))
        \* drop 'type', 'mapped_to', 'reaction'
        p4 == PdSelect(p3, Without(p3.columns, <<S_type, S_mapped_to, S_reaction>>))
        p5 == PdTranspose(p4)
        \* parameters_df.columns = parameters_df.iloc[0]
        p6 == PdRename(p5, [k \in 1..Len(p5.columns) |-> p5.data[1][p5.columns[k]][2]])
    IN  PdResetIndex(PdDropFirstRow(p6))

\* the species names with 'name' put in front: the columns of the empty
\* result frame, and the names the species loop accepts
list_of_species_names == <<S_name>> \o SpeciesOrder

(* ------------------------------ inputs -------------------------------- *)
\* what the operator may type at the species prompt
SpeciesTokens ==
    {S_done, <<"D","O","N","E">>, S_A, S_B, S_name, <<"a">>}

\* what the operator may type at the rate parameter prompt
RateNameTokens == {S_done, <<"D","o","n","e">>, S_k1, S_k2, <<"K","1">>}

\* what the operator may type at the value prompt
RateValueTexts == {<<"2",".","0">>, <<" ","0",".","5">>, <<"x">>, <<>>}

\* the floats read from the spreadsheet
ExcelFloats == {<<"num", 1, 0>>, <<"num", 2, 0>>}

\* values the sweep function may be handed: floats and strings
ConcValues == {<<"num", 1, 0>>, Str(<<"x">>), Str(<<" ","2">>)}

SeqsUpTo(S, n) == UNION {[1..k -> S] : k \in 0..n}

(* ------------------------------- state -------------------------------- *)
VARIABLES
    pc,                         \* the statement the script is at
    conc_list_from_excel,       \* the concentration sequence
    list_of_species_init_conc,  \* the selected species
    species_name_input,         \* last line read at the species prompt
    parameter_name,             \* last line read at the rate name prompt
    rate_input,                 \* last line read at the value prompt
    params,                     \* the model's reaction parameter values
    initConc,                   \* the model's initial concentrations
    steady,                     \* the model's concentrations (after a solve)
    readable,                   \* whether get_species() has a concentration column
    steady_state_analysis_df,   \* the result frame
    csv,                        \* the file written by to_csv
    out,                        \* the last message printed
    i,                          \* position of the sweep in the sequence
    j,                          \* position of set_init_conc in the species list
    concentration,              \* set_init_conc's coerced concentration
    skips                       \* the skip messages the sweep has printed

vars == <<pc, conc_list_from_excel, list_of_species_init_conc, species_name_input,
          parameter_name, rate_input, params, initConc, steady, readable,
          steady_state_analysis_df, csv, out, i, j, concentration, skips>>

NoCsv == [written |-> FALSE, columns |-> <<>>, data |-> <<>>]

InitCommon ==
    /\ species_name_input = <<>>
    /\ parameter_name = <<>>
    /\ rate_input = <<>>
    /\ params = ModelParams
    /\ initConc = ModelInitConc
    /\ steady = ModelInitConc
    /\ readable = TRUE
    /\ steady_state_analysis_df = PdDataFrame(list_of_species_names)
    /\ csv = NoCsv
    /\ out = "none"
    /\ i = 0
    /\ j = 0
    /\ concentration = NaN
    /\ skips = <<>>

\* the script after load_model and get_species, at the first species prompt
Init ==
    /\ InitCommon
    /\ pc = "cli_initial_conc"
    /\ conc_list_from_excel \in SeqsUpTo(ExcelFloats, MaxConc)
    /\ list_of_species_init_conc = <<>>

(* ----------------------- species selection loop ----------------------- *)
\* a comparison with the sentinel that forgets .lower()
IsDoneSpecies_Exact(t) == t = S_done

\* species_name_input.lower() == 'done'
IsDoneSpecies(t) == PyLower(t) = S_done

\* species_name_input not in list_of_species_names
NotInSpeciesNames(t) == t \notin Range(list_of_species_names)

\* the sentinel: leave the loop, return the list; cli_set_rates prints its
\* banner and prompts for a rate parameter
cli_initial_conc_done(t) ==
    /\ pc = "cli_initial_conc"
    /\ IsDoneSpecies(t)
    /\ species_name_input' = t
    /\ pc' = "cli_set_rates"
    /\ out' = "possible_rates"
    /\ UNCHANGED <<conc_list_from_excel, list_of_species_init_conc, parameter_name,
                   rate_input, params, initConc, steady, readable,
                   steady_state_analysis_df, csv, i, j, concentration, skips>>

\* a name the loop does not know: message, next prompt
cli_initial_conc_reject(t) ==
    /\ pc = "cli_initial_conc"
    /\ ~IsDoneSpecies(t)
    /\ NotInSpeciesNames(t)
    /\ species_name_input' = t
    /\ out' = "not_a_species"
    /\ UNCHANGED <<pc, conc_list_from_excel, list_of_species_init_conc, parameter_name,
                   rate_input, params, initConc, steady, readable,
                   steady_state_analysis_df, csv, i, j, concentration, skips>>

\* a name the loop knows: appended to the list
cli_initial_conc_add(t) ==
    /\ pc = "cli_initial_conc"
    /\ ~IsDoneSpecies(t)
    /\ ~NotInSpeciesNames(t)
    /\ Len(list_of_species_init_conc) < MaxSel
    /\ species_name_input' = t
    /\ list_of_species_init_conc' = Append(list_of_species_init_conc, t)
    /\ out' = "current_list"
    /\ UNCHANGED <<pc, conc_list_from_excel, parameter_name,
                   rate_input, params, initConc, steady, readable,
                   steady_state_analysis_df, csv, i, j, concentration, skips>>

(* ----------------------- rate parameter loop -------------------------- *)
\* parameter_name.lower() == 'done'
IsDoneRates(t) == PyLower(t) = S_done

\* a loop that forgets the membership test
NotInRates_Never(t) == FALSE

\* list_of_rates = parameters_df.index.tolist(); parameter_name not in list_of_rates
NotInRates(t) == t \notin Range(get_reaction_parameters(ModelParams).index)

\* a parse that takes a line it cannot read for 0.0
ParseRate_Lenient(text) ==
    IF PyFloatStr(text).ok THEN PyFloatStr(text)
    ELSE [ok |-> TRUE, val |-> <<"num", 0, 0>>]

\* float(input(...)) at the value prompt
ParseRate(text) == PyFloatStr(text)

\* the sentinel: the summary is printed and the script goes on to the
\* concatenation (the statements in between are definitions only)
cli_set_rates_done(t) ==
    /\ pc = "cli_set_rates"
    /\ IsDoneRates(t)
    /\ parameter_name' = t
    /\ pc' = "concat"
    /\ out' = "summary"
    /\ UNCHANGED <<conc_list_from_excel, list_of_species_init_conc, species_name_input,
                   rate_input, params, initConc, steady, readable,
                   steady_state_analysis_df, csv, i, j, concentration, skips>>

\* an unknown parameter name: message, next name prompt
cli_set_rates_reject(t) ==
    /\ pc = "cli_set_rates"
    /\ ~IsDoneRates(t)
    /\ NotInRates(t)
    /\ parameter_name' = t
    /\ out' = "not_a_rate"
    /\ UNCHANGED <<pc, conc_list_from_excel, list_of_species_init_conc,
                   species_name_input, rate_input, params, initConc, steady, readable,
                   steady_state_analysis_df, csv, i, j, concentration, skips>>

\* a known parameter name: on to the value prompt
cli_set_rates_name(t) ==
    /\ pc = "cli_set_rates"
    /\ ~IsDoneRates(t)
    /\ ~NotInRates(t)
    /\ parameter_name' = t
    /\ pc' = "rate_value"
    /\ out' = "changing"
    /\ UNCHANGED <<conc_list_from_excel, list_of_species_init_conc,
                   species_name_input, rate_input, params, initConc, steady, readable,
                   steady_state_analysis_df, csv, i, j, concentration, skips>>

\* a line at the value prompt: ValueError prompts again, a float is set in
\* the model and the name prompt follows
cli_set_rates_value(text) ==
    /\ pc = "rate_value"
    /\ rate_input' = text
    /\ IF ParseRate(text).ok
       THEN /\ params' = set_reaction_parameters(params, parameter_name, ParseRate(text).val)
            /\ pc' = "cli_set_rates"
            /\ out' = "changing"
       ELSE /\ out' = "invalid_float"
            /\ UNCHANGED <<pc, params>>
    /\ UNCHANGED <<conc_list_from_excel, list_of_species_init_conc,
                   species_name_input, parameter_name, initConc, steady, readable,
                   steady_state_analysis_df, csv, i, j, concentration, skips>>

(* ------------------------ assembly and output ------------------------- *)
\* steady_state_analysis_df = pd.concat([steady_state_analysis_df,
\*                                       handle_parameters_df()], axis=1)
concat ==
    /\ pc = "concat"
    /\ LET r == PdConcatAxis1(steady_state_analysis_df, handle_parameters_df(params))
       IN  IF r.raised
           THEN /\ pc' = "raised"
                /\ UNCHANGED steady_state_analysis_df
           ELSE /\ pc' = "to_csv"
                /\ steady_state_analysis_df' = r.frame
    /\ UNCHANGED <<conc_list_from_excel, list_of_species_init_conc,
                   species_name_input, parameter_name, rate_input, params, initConc,
                   steady, readable, csv, out, i, j, concentration, skips>>

\* steady_state_analysis_df.to_csv(..., index=False): header and rows, no index
to_csv ==
    /\ pc = "to_csv"
    /\ csv' = [written |-> TRUE,
               columns |-> steady_state_analysis_df.columns,
               data    |-> steady_state_analysis_df.data]
    /\ pc' = "exit"
    /\ out' = "csv_generated"
    /\ UNCHANGED <<conc_list_from_excel, list_of_species_init_conc,
                   species_name_input, parameter_name, rate_input, params, initConc,
                   steady, readable, steady_state_analysis_df, i, j, concentration, skips>>

\* the script, statement by statement; analyze_steady_states is defined at
\* lines 150-189 and called nowhere, so the run has no sweep step
Next ==
    \/ \E t \in SpeciesTokens : cli_initial_conc_done(t)
    \/ \E t \in SpeciesTokens : cli_initial_conc_reject(t)
    \/ \E t \in SpeciesTokens : cli_initial_conc_add(t)
    \/ \E t \in RateNameTokens : cli_set_rates_done(t)
    \/ \E t \in RateNameTokens : cli_set_rates_reject(t)
    \/ \E t \in RateNameTokens : cli_set_rates_name(t)
    \/ \E text \in RateValueTexts : cli_set_rates_value(text)
    \/ concat
    \/ to_csv

Spec == Init /\ [][Next]_vars

(* --------------------- analyze_steady_states -------------------------- *)
\* a coercion that takes a value it cannot read for 0.0
CoerceConcentration_Swallow(v) ==
    IF PyFloat(v).ok THEN PyFloat(v) ELSE [ok |-> TRUE, val |-> <<"num", 0, 0>>]

\* float(concentration) in set_init_conc; not ok where ValueError is raised
CoerceConcentration(v) == PyFloat(v)

\* get_species()[['concentration']] transposed, with the IP_tot column
NewData(conc, value) ==
    PdSetColumn(PdTranspose(PdSelect(get_species(initConc, conc), <<S_concentration>>)),
                S_IP_tot, value)

\* a call of analyze_steady_states(conc_list_from_excel,
\* list_of_species_init_conc, steady_state_analysis_df) on the loaded model,
\* with a list the species loop can return and the empty result frame
InitSweep ==
    /\ InitCommon
    /\ pc = "for"
    /\ conc_list_from_excel \in SeqsUpTo(ConcValues, MaxConc)
    /\ list_of_species_init_conc \in SeqsUpTo(Range(list_of_species_names), MaxSel)

\* for concentration in conc_list_from_excel: the next value
analyze_for ==
    /\ pc = "for"
    /\ i < Len(conc_list_from_excel)
    /\ i' = i + 1
    /\ pc' = "set_init_conc"
    /\ UNCHANGED <<conc_list_from_excel, list_of_species_init_conc, species_name_input,
                   parameter_name, rate_input, params, initConc, steady, readable,
                   steady_state_analysis_df, csv, out, j, concentration, skips>>

\* the sequence is exhausted: return steady_state_analysis_df
analyze_return ==
    /\ pc = "for"
    /\ i = Len(conc_list_from_excel)
    /\ pc' = "returned"
    /\ UNCHANGED <<conc_list_from_excel, list_of_species_init_conc, species_name_input,
                   parameter_name, rate_input, params, initConc, steady, readable,
                   steady_state_analysis_df, csv, out, i, j, concentration, skips>>

\* set_init_conc: the coercion; its ValueError is caught by the loop, which
\* prints the skip message and continues
set_init_conc_float ==
    /\ pc = "set_init_conc"
    /\ LET f == CoerceConcentration(conc_list_from_excel[i])
       IN  IF f.ok
           THEN /\ concentration' = f.val
                /\ j' = 1
                /\ pc' = "set_species"
                /\ UNCHANGED <<out, skips>>
           ELSE /\ out' = "skip_value_error"
                /\ skips' = Append(skips, <<"ValueError", conc_list_from_excel[i]>>)
                /\ pc' = "for"
                /\ UNCHANGED <<j, concentration>>
    /\ UNCHANGED <<conc_list_from_excel, list_of_species_init_conc, species_name_input,
                   parameter_name, rate_input, params, initConc, steady, readable,
                   steady_state_analysis_df, csv, i>>

\* a loop that adds the concentration to the species' value
set_init_conc_set_Add ==
    /\ pc = "set_species"
    /\ j <= Len(list_of_species_init_conc)
    /\ initConc' =
          LET spec == list_of_species_init_conc[j]
          IN  IF spec \in SpeciesNames
              THEN set_species(initConc, spec,
                               <<"num", initConc[spec][2] + concentration[2], 0>>)
              ELSE initConc
    /\ j' = j + 1
    /\ UNCHANGED <<pc, conc_list_from_excel, list_of_species_init_conc,
                   species_name_input, parameter_name, rate_input, params, steady,
                   readable, steady_state_analysis_df, csv, out, i, concentration, skips>>

\* a loop that takes each name out of the list as it sets it
set_init_conc_set_Pop ==
    /\ pc = "set_species"
    /\ j <= Len(list_of_species_init_conc)
    /\ initConc' = set_species(initConc, list_of_species_init_conc[j], concentration)
    /\ list_of_species_init_conc' = Tail(list_of_species_init_conc)
    /\ UNCHANGED <<pc, conc_list_from_excel, j,
                   species_name_input, parameter_name, rate_input, params, steady,
                   readable, steady_state_analysis_df, csv, out, i, concentration, skips>>

\* set_init_conc: one set_species call of its loop over the list
set_init_conc_set ==
    /\ pc = "set_species"
    /\ j <= Len(list_of_species_init_conc)
    /\ initConc' = set_species(initConc, list_of_species_init_conc[j], concentration)
    /\ j' = j + 1
    /\ UNCHANGED <<pc, conc_list_from_excel, list_of_species_init_conc,
                   species_name_input, parameter_name, rate_input, params, steady,
                   readable, steady_state_analysis_df, csv, out, i, concentration, skips>>

\* a sweep that does not solve when there was no species to set
analyze_run_steadystate_NeedsSelection(found, ok) ==
    /\ pc = "set_species"
    /\ j > Len(list_of_species_init_conc)
    /\ IF list_of_species_init_conc = <<>>
       THEN /\ pc' = "for"
            /\ UNCHANGED <<steady, readable>>
       ELSE /\ steady' = run_steadystate(initConc, params, found)
            /\ readable' = ok
            /\ pc' = "get_species"
    /\ UNCHANGED <<conc_list_from_excel, list_of_species_init_conc, species_name_input,
                   parameter_name, rate_input, params, initConc,
                   steady_state_analysis_df, csv, out, i, j, concentration, skips>>

\* set_init_conc has returned: run_steadystate(), its return value (steady
\* state found or not) discarded; whether get_species() then has a
\* concentration column is the model's affair
analyze_run_steadystate(found, ok) ==
    /\ pc = "set_species"
    /\ j > Len(list_of_species_init_conc)
    /\ steady' = run_steadystate(initConc, params, found)
    /\ readable' = ok
    /\ pc' = "get_species"
    /\ UNCHANGED <<conc_list_from_excel, list_of_species_init_conc, species_name_input,
                   parameter_name, rate_input, params, initConc,
                   steady_state_analysis_df, csv, out, i, j, concentration, skips>>

\* a read-back that puts the model file's concentrations back after a KeyError
analyze_get_species_Rollback ==
    /\ pc = "get_species"
    /\ IF readable
       THEN /\ steady_state_analysis_df' =
                  PdAppend(steady_state_analysis_df,
                           NewData(steady, conc_list_from_excel[i]))
            /\ UNCHANGED <<out, skips, initConc>>
       ELSE /\ out' = "skip_key_error"
            /\ skips' = Append(skips, <<"KeyError", conc_list_from_excel[i]>>)
            /\ initConc' = ModelInitConc
            /\ UNCHANGED steady_state_analysis_df
    /\ pc' = "for"
    /\ UNCHANGED <<conc_list_from_excel, list_of_species_init_conc, species_name_input,
                   parameter_name, rate_input, params, steady, readable,
                   csv, i, j, concentration>>

\* a read-back that goes back to the solve after a KeyError
analyze_get_species_Retry ==
    /\ pc = "get_species"
    /\ IF readable
       THEN /\ steady_state_analysis_df' =
                  PdAppend(steady_state_analysis_df,
                           NewData(steady, conc_list_from_excel[i]))
            /\ pc' = "for"
            /\ UNCHANGED out
       ELSE /\ out' = "skip_key_error"
            /\ pc' = "set_species"
            /\ UNCHANGED steady_state_analysis_df
    /\ UNCHANGED <<conc_list_from_excel, list_of_species_init_conc, species_name_input,
                   parameter_name, rate_input, params, initConc, steady, readable,
                   csv, i, j, concentration, skips>>

\* get_species()[['concentration']]: KeyError prints the skip message and
\* continues; otherwise the row, tagged with the loop's value, is appended
analyze_get_species ==
    /\ pc = "get_species"
    /\ IF readable
       THEN /\ steady_state_analysis_df' =
                  PdAppend(steady_state_analysis_df,
                           NewData(steady, conc_list_from_excel[i]))
            /\ UNCHANGED <<out, skips>>
       ELSE /\ out' = "skip_key_error"
            /\ skips' = Append(skips, <<"KeyError", conc_list_from_excel[i]>>)
            /\ UNCHANGED steady_state_analysis_df
    /\ pc' = "for"
    /\ UNCHANGED <<conc_list_from_excel, list_of_species_init_conc, species_name_input,
                   parameter_name, rate_input, params, initConc, steady, readable,
                   csv, i, j, concentration>>

NextSweep ==
    \/ analyze_for
    \/ analyze_return
    \/ set_init_conc_float
    \/ set_init_conc_set
    \/ \E found, ok \in BOOLEAN : analyze_run_steadystate(found, ok)
    \/ analyze_get_species

SpecSweep == InitSweep /\ [][NextSweep]_vars

(* ============================== claims ================================ *)
\* the swept values of a table, row by row (NaN where it has no IP_tot cell)
SweptValues(tbl) ==
    [k \in 1..Len(tbl.data) |->
        IF S_IP_tot \in DOMAIN tbl.data[k] THEN tbl.data[k][S_IP_tot] ELSE NaN]

\* C1: when the script has run to its end on a sequence of N floats, the
\* table written has exactly N rows and their swept values are the N input
\* values in input order.
C1_CompleteRunHasNRows ==
    pc = "exit" =>
        /\ csv.written
        /\ S_IP_tot \in Range(csv.columns)
        /\ SweptValues(csv) = conc_list_from_excel

\* C2: the columns of the table written are the species in model order, then
\* IP_tot, then the reaction parameters, and nothing else.
C2_ColumnOrder ==
    csv.written => csv.columns = SpeciesOrder \o <<S_IP_tot>> \o ParamOrder

\* positions of the first n values that float() cannot coerce
Uncoercible(n) == {k \in 1..n : ~PyFloat(conc_list_from_excel[k]).ok}
ValueErrorSkips == {k \in 1..Len(skips) : skips[k][1] = "ValueError"}

\* C3: a value that fails float coercion makes its iteration go straight
\* back to the loop head: no set_species call, no solve, the model and the
\* result frame as before, one skip message; and between iterations the
\* frame has one row less than values consumed for every skip, the
\* ValueError skips being exactly the uncoercible values.
C3_CoercionFailureStep ==
    (pc = "set_init_conc" /\ ~PyFloat(conc_list_from_excel[i]).ok) =>
        /\ pc' = "for"
        /\ i' = i
        /\ initConc' = initConc
        /\ steady' = steady
        /\ params' = params
        /\ steady_state_analysis_df' = steady_state_analysis_df
        /\ skips' = Append(skips, <<"ValueError", conc_list_from_excel[i]>>)
C3_RowCount ==
    pc \in {"for", "returned"} =>
        /\ Len(steady_state_analysis_df.data) = i - Len(skips)
        /\ Cardinality(ValueErrorSkips) = Cardinality(Uncoercible(i))
C3_CoercionFailureSkips == [][C3_CoercionFailureStep]_vars /\ []C3_RowCount

\* C3 witness: the sweep has returned after skipping an uncoercible value
\* and producing a row for a later one
C3_Witness ==
    /\ pc = "returned"
    /\ Len(conc_list_from_excel) = 2
    /\ ~PyFloat(conc_list_from_excel[1]).ok
    /\ Len(steady_state_analysis_df.data) = 1
    /\ SweptValues(steady_state_analysis_df) = <<conc_list_from_excel[2]>>
    /\ list_of_species_init_conc # <<>>

\* C4: every selected name is a species of the loaded model.
C4_SelectionWithinSpecies ==
    Range(list_of_species_init_conc) \subseteq SpeciesNames

\* C5: a line typed at the species prompt either ends the loop with the
\* selection as it was, or is a species of the model and joins the selection
\* (as a set), or is unknown, leaves the selection unchanged and is answered
\* by the rejection message.
C5_SelectionStep ==
    pc = "cli_initial_conc" =>
        IF pc' # "cli_initial_conc"
        THEN list_of_species_init_conc' = list_of_species_init_conc
        ELSE IF species_name_input' \in SpeciesNames
        THEN Range(list_of_species_init_conc') =
                Range(list_of_species_init_conc) \cup {species_name_input'}
        ELSE /\ list_of_species_init_conc' = list_of_species_init_conc
             /\ out' = "not_a_species"
C5_SelectionIsValidNamesTyped == [][C5_SelectionStep]_vars

\* C6 as stated: the species loop is left only on the exact token "done".
C6_SpeciesSentinelExact ==
    [][(pc = "cli_initial_conc" /\ pc' # "cli_initial_conc")
          => species_name_input' = S_done]_vars

\* C6 as amended: both loops are left on "done" in any letter case and on
\* nothing else; at the species prompt a token that differs from "done" only
\* in case ends the loop, is not validated, gets no rejection message and
\* leaves the selection as it was.
C6_SentinelStep ==
    /\ pc = "cli_initial_conc" =>
          /\ (pc' = "cli_set_rates") <=> (PyLower(species_name_input') = S_done)
          /\ PyLower(species_name_input') = S_done =>
                /\ list_of_species_init_conc' = list_of_species_init_conc
                /\ out' # "not_a_species"
    /\ pc = "cli_set_rates" =>
          (pc' = "concat") <=> (PyLower(parameter_name') = S_done)
C6_SentinelAnyCase == [][C6_SentinelStep]_vars

\* C6 witness: both loops were left on a token that is "done" in other case
C6_Witness ==
    /\ pc = "concat"
    /\ species_name_input = <<"D","O","N","E">>
    /\ parameter_name = <<"D","o","n","e">>

\* C7: a name typed at the rate prompt that is neither the sentinel nor a
\* reaction parameter of the model is answered by the diagnostic, changes
\* nothing in the model and leads to the name prompt again, not to the value
\* prompt; the value prompt is only reached with a parameter of the model,
\* and a step that changes a parameter value changes that parameter only.
C7_UnknownNameStep ==
    /\ (pc = "cli_set_rates" /\ PyLower(parameter_name') # S_done
            /\ parameter_name' \notin ParamNames) =>
          /\ pc' = "cli_set_rates"
          /\ out' = "not_a_rate"
          /\ params' = params
          /\ initConc' = initConc
    /\ pc' = "rate_value" => parameter_name' \in ParamNames
    /\ params' # params =>
          /\ pc = "rate_value"
          /\ parameter_name \in ParamNames
          /\ \A q \in ParamNames \ {parameter_name} : params'[q] = params[q]
C7_OverridesWithinParameters == [][C7_UnknownNameStep]_vars

\* C7 witness: an unknown name was rejected after an override was applied
C7_Witness ==
    /\ pc = "cli_set_rates"
    /\ out = "not_a_rate"
    /\ parameter_name = <<"K","1">>
    /\ params # ModelParams

\* C8: at the value prompt a line that is no float leaves the model and the
\* pending name as they were and prompts again; a line that is a float is
\* set in the model for the pending parameter and no other, and the name
\* prompt follows; the script does not abort there, and no other step of the
\* run changes a parameter value.
C8_ValueStep ==
    /\ (pc = "rate_value" /\ ~PyFloatStr(rate_input').ok) =>
          /\ pc' = "rate_value"
          /\ params' = params
          /\ parameter_name' = parameter_name
          /\ out' = "invalid_float"
    /\ (pc = "rate_value" /\ PyFloatStr(rate_input').ok) =>
          /\ pc' = "cli_set_rates"
          /\ parameter_name' = parameter_name
          /\ params' = [params EXCEPT ![parameter_name] = PyFloatStr(rate_input').val]
    /\ pc # "rate_value" => params' = params
    /\ pc' # "raised"
C8_NumericEntry == [][C8_ValueStep]_vars

\* C8 witness: an unreadable line was just rejected at the value prompt
\* while an earlier override is still in place
C8_Witness ==
    /\ pc = "rate_value"
    /\ out = "invalid_float"
    /\ params[S_k1] = <<"num", 5, 1>>
    /\ parameter_name = S_k2

\* a row whose cells outside the parameter columns are all NaN
ParametersOnly(row) == \A c \in DOMAIN row \ ParamNames : row[c] = NaN

\* C9: every row of the table written carries the model's parameter values
\* in its parameter columns, and no row consists of parameter values only.
C9_ParametersInEveryRow ==
    csv.written =>
        \A k \in 1..Len(csv.data) :
            /\ \A q \in ParamNames : q \in DOMAIN csv.data[k] /\ csv.data[k][q] = params[q]
            /\ ~ParametersOnly(csv.data[k])

\* C10: when the result frame has no row at the concatenation, the table
\* assembled has no row and has every species column, IP_tot and every
\* parameter column.
C10_EmptyBlockStep ==
    (pc = "concat" /\ steady_state_analysis_df.data = <<>> /\ pc' = "to_csv") =>
        /\ steady_state_analysis_df'.data = <<>>
        /\ SpeciesNames \cup {S_IP_tot} \cup ParamNames
              \subseteq Range(steady_state_analysis_df'.columns)
C10_EmptyBlockZeroRows == [][C10_EmptyBlockStep]_vars

\* whether the solve of the current iteration found a steady state
SolveFound == steady[SpeciesOrder[1]][1] = "ss"

\* C11: an iteration in which the coercion fails, the solve finds no steady
\* state or the concentrations cannot be read ends at the loop head with one
\* more skip message and no new row, and no exception leaves the function.
C11_FailureStep ==
    /\ (\/ (pc = "set_init_conc" /\ ~PyFloat(conc_list_from_excel[i]).ok)
        \/ (pc = "get_species" /\ (~readable \/ ~SolveFound))) =>
          /\ pc' = "for"
          /\ Len(skips') = Len(skips) + 1
          /\ steady_state_analysis_df' = steady_state_analysis_df
    /\ pc' # "raised"
C11_FailureConfined == [][C11_FailureStep]_vars

RECURSIVE IsInterleaving(_, _, _)
\* c is a and b merged, each in its own order
IsInterleaving(a, b, c) ==
    IF c = <<>> THEN a = <<>> /\ b = <<>>
    ELSE \/ (a # <<>> /\ Head(a) = Head(c) /\ IsInterleaving(Tail(a), b, Tail(c)))
         \/ (b # <<>> /\ Head(b) = Head(c) /\ IsInterleaving(a, Tail(b), Tail(c)))

SkippedValues == [k \in 1..Len(skips) |-> skips[k][2]]

\* C12: between iterations the swept values of the rows are the values
\* consumed so far with the skipped ones taken out, in input order, and each
\* row belongs to a value that was coerced and whose solve found a steady
\* state.
C12_RowsAreSolvedSubsequence ==
    pc \in {"for", "returned"} =>
        /\ IsInterleaving(SweptValues(steady_state_analysis_df), SkippedValues,
                          SubSeq(conc_list_from_excel, 1, i))
        /\ \A k \in 1..Len(steady_state_analysis_df.data) :
              /\ PyFloat(steady_state_analysis_df.data[k][S_IP_tot]).ok
              /\ \A s \in SpeciesNames : steady_state_analysis_df.data[k][s][1] = "ss"

\* C13: the table is written only after the sweep has consumed every value
\* of the concentration sequence.
C13_WriteAfterSweep ==
    csv.written => i = Len(conc_list_from_excel)

\* C14: within a call of analyze_steady_states the model is accessed in
\* order, value by value: a set_species call belongs to the value at hand
\* and comes before its solve; the solve comes when the whole list has been
\* set, once; the read-back follows it and ends the iteration, whether it
\* succeeds or not; and the sweep never returns to an earlier value.
C14_SequentialStep ==
    /\ initConc' # initConc =>
          pc = "set_species" /\ pc' = "set_species" /\ j' = j + 1 /\ i' = i
    /\ steady' # steady =>
          /\ pc = "set_species" /\ pc' = "get_species"
          /\ j = Len(list_of_species_init_conc) + 1
          /\ i' = i
    /\ pc = "set_species" =>
          \/ (j <= Len(list_of_species_init_conc) /\ j' = j + 1 /\ pc' = "set_species")
          \/ (j > Len(list_of_species_init_conc) /\ pc' = "get_species")
    /\ pc = "get_species" => (pc' = "for" /\ i' = i /\ steady' = steady /\ initConc' = initConc)
    /\ pc = "set_init_conc" => (pc' \in {"set_species", "for"} /\ i' = i /\ (pc' = "set_species" => j' = 1))
    /\ pc = "for" => (i' = i + 1 /\ pc' = "set_init_conc") \/ (i' = i /\ pc' = "returned")
    /\ i' >= i
C14_SequentialAccess == [][C14_SequentialStep]_vars

\* C14 witness: the second value is about to be read back after both
\* species of the list were set, the first value having been skipped for a
\* KeyError
C14_Witness ==
    /\ pc = "get_species"
    /\ i = 2
    /\ Len(list_of_species_init_conc) = 2
    /\ j = 3
    /\ skips = <<<<"KeyError", conc_list_from_excel[1]>>>>

\* C15: no step of the sweep changes the selected species or a reaction
\* parameter value.
C15_SweepFrame ==
    [][/\ list_of_species_init_conc' = list_of_species_init_conc
       /\ params' = params]_vars

\* C15 witness: a sweep over a two-species selection has returned two rows
C15_Witness ==
    /\ pc = "returned"
    /\ Len(list_of_species_init_conc) = 2
    /\ Len(steady_state_analysis_df.data) = 2
    /\ initConc # ModelInitConc

KeyErrorSkips == {k \in 1..Len(skips) : skips[k][1] = "KeyError"}

\* C16 as stated: with an empty selection the sweep returns one row per
\* value that could be coerced.
C16_RowPerCoercedValue ==
    (list_of_species_init_conc = <<>> /\ pc = "returned") =>
        Len(steady_state_analysis_df.data) =
            Len(conc_list_from_excel) - Cardinality(Uncoercible(Len(conc_list_from_excel)))

\* C16 as amended: with an empty selection no set_species call is made (the
\* coercion is followed by the solve at once and the initial concentrations
\* stay those of the model file), every coerced value is solved, and between
\* iterations there is one row per coerced value whose concentrations could
\* be read back, each computed from the unchanged initial concentrations.
C16_EmptySelectionStep ==
    (list_of_species_init_conc = <<>> /\ pc = "set_species") =>
        /\ pc' = "get_species"
        /\ \E found \in BOOLEAN : steady' = run_steadystate(ModelInitConc, params, found)
C16_EmptySelectionState ==
    list_of_species_init_conc = <<>> =>
        /\ initConc = ModelInitConc
        /\ pc \in {"for", "returned"} =>
              /\ Len(steady_state_analysis_df.data) =
                    i - Cardinality(Uncoercible(i)) - Cardinality(KeyErrorSkips)
              /\ \A k \in 1..Len(steady_state_analysis_df.data) :
                    \A s \in SpeciesNames :
                        steady_state_analysis_df.data[k][s][3] = ModelInitConc
C16_EmptySelection == [][C16_EmptySelectionStep]_vars /\ []C16_EmptySelectionState

\* C16 witness: three values swept with an empty selection gave three rows
C16_Witness ==
    /\ list_of_species_init_conc = <<>>
    /\ pc = "returned"
    /\ Len(conc_list_from_excel) = 3
    /\ Len(steady_state_analysis_df.data) = 3

RECURSIVE ApplyAll(_, _, _)
\* set_species for each name of a list in turn
ApplyAll(ic, names, c) ==
    IF names = <<>> THEN ic
    ELSE ApplyAll(set_species(ic, Head(names), c), Tail(names), c)

RECURSIVE Dedup(_)
\* a list without its repeated entries
Dedup(names) ==
    IF names = <<>> THEN <<>>
    ELSE <<Head(names)>> \o Dedup(SelectSeq(Tail(names), LAMBDA x : x # Head(names)))

\* C17: at every point of set_init_conc's loop, setting the rest of the list
\* leaves the model as setting the list without its repeated entries would
\* (at the start of the loop: the whole list against its deduplicated form);
\* and once the loop is over the initial concentrations depend on the list
\* only through the set of its names.
C17_DuplicatesIdempotent ==
    /\ pc = "set_species" =>
          ApplyAll(initConc,
                   SubSeq(list_of_species_init_conc, j, Len(list_of_species_init_conc)),
                   concentration)
            = ApplyAll(initConc, Dedup(list_of_species_init_conc), concentration)
    /\ (pc = "get_species"
          \/ (pc = "set_species" /\ j > Len(list_of_species_init_conc))) =>
          initConc = [s \in SpeciesNames |->
                        IF s \in Range(list_of_species_init_conc)
                        THEN concentration ELSE ModelInitConc[s]]

\* C17 witness: a value was applied to a list naming A twice
C17_Witness ==
    /\ pc = "get_species"
    /\ list_of_species_init_conc = <<S_A, S_A>>
    /\ initConc[S_A] = concentration
    /\ initConc[S_A] # ModelInitConc[S_A]

RECURSIVE LastCoerced(_)
\* the coerced value of the last of the first n values that float() accepts
LastCoerced(n) ==
    IF n = 0 THEN NaN
    ELSE IF PyFloat(conc_list_from_excel[n]).ok
    THEN PyFloat(conc_list_from_excel[n]).val
    ELSE LastCoerced(n - 1)

\* the selected names that are species of the model
SelectedSpecies == Range(list_of_species_init_conc) \cap SpeciesNames

\* C18: from the end of set_init_conc's loop until the next successful
\* coercion, and so across every skip, each selected species has as its
\* initial concentration the last value that was coerced successfully (after
\* a ValueError skip the value before it, after a KeyError skip the value of
\* the skipped point); inside the loop the names already set have the new
\* value.
C18_NoRollback ==
    /\ (pc \in {"for", "returned", "get_species"}
          \/ (pc = "set_species" /\ j > Len(list_of_species_init_conc))) =>
          (LastCoerced(i) # NaN =>
              \A s \in SelectedSpecies : initConc[s] = LastCoerced(i))
    /\ pc = "set_init_conc" =>
          (LastCoerced(i - 1) # NaN =>
              \A s \in SelectedSpecies : initConc[s] = LastCoerced(i - 1))
    /\ pc = "set_species" =>
          \A k \in 1..(j - 1) :
              list_of_species_init_conc[k] \in SpeciesNames =>
                  initConc[list_of_species_init_conc[k]] = LastCoerced(i)

\* C18 witness: the first value was skipped for a KeyError, the second for a
\* ValueError, and the selected species A still has the first value
C18_Witness ==
    /\ pc = "for"
    /\ i = 2
    /\ skips = <<<<"KeyError", conc_list_from_excel[1]>>,
                 <<"ValueError", conc_list_from_excel[2]>>>>
    /\ S_A \in Range(list_of_species_init_conc)
    /\ initConc[S_A] = PyFloat(conc_list_from_excel[1]).val
    /\ initConc[S_A] # ModelInitConc[S_A]

====
